---- MODULE Spec2Model ----
(***************************************************************************)
(* Model of bot.py: the catechism quote bot.                               *)
(*                                                                         *)
(* Text is a sequence of one-character strings.  The regular expressions   *)
(* of the source are modelled by what Python's backtracking matcher does   *)
(* with them: leftmost start, greedy or lazy quantifiers in their          *)
(* priority order, word boundaries and lookaheads.                         *)
(***************************************************************************)
EXTENDS Integers, Sequences, FiniteSets, TLC

\* ------------------------------------------------------------------------
\* Character classes of Python's re module (str patterns)
\* ------------------------------------------------------------------------
\* \d
Digit == {"0", "1", "2", "3", "4", "5", "6", "7", "8", "9"}

\* [A-Za-z]
Letter ==
  {"a", "b", "c", "d", "e", "f", "g", "h", "i", "j", "k", "l", "m",
   "n", "o", "p", "q", "r", "s", "t", "u", "v", "w", "x", "y", "z",
   "A", "B", "C", "D", "E", "F", "G", "H", "I", "J", "K", "L", "M",
   "N", "O", "P", "Q", "R", "S", "T", "U", "V", "W", "X", "Y", "Z"}

\* \s
Space == {" ", "\n", "\t"}

\* \w
WordChar == Digit \cup Letter \cup {"_"}

\* Python's None and a str value, kept apart: "" is a str, not None
None == [isNone |-> TRUE, s |-> <<>>]

Str(s) == [isNone |-> FALSE, s |-> s]

\* Python truthiness of a str | None value: None and "" are both falsy
Truthy(v) == ~v.isNone /\ v.s # <<>>

\* t[i] is in class cls (false outside the text)
At(t, i, cls) == i >= 1 /\ i <= Len(t) /\ t[i] \in cls

\* first position >= i whose character is not in cls (Len(t)+1 if none):
\* where a greedy cls* started at i stops
RunEnd(t, i, cls) ==
  IF \E j \in i..Len(t) : t[j] \notin cls
  THEN CHOOSE j \in i..Len(t) : t[j] \notin cls /\ \A k \in i..(j - 1) : t[k] \in cls
  ELSE Len(t) + 1

\* \b at position i (between t[i-1] and t[i])
WordBoundary(t, i) == At(t, i - 1, WordChar) # At(t, i, WordChar)

\* the literal lit occurs in t starting at position i
LitAt(t, i, lit) ==
  /\ i >= 1
  /\ i + Len(lit) - 1 <= Len(t)
  /\ \A k \in 1..Len(lit) : t[i + k - 1] = lit[k]

\* t[a..b-1]
Slice(t, a, b) == SubSeq(t, a, b - 1)

\* str.strip()
Strip(t) ==
  IF \A i \in 1..Len(t) : t[i] \in Space
  THEN <<>>
  ELSE LET a == CHOOSE i \in 1..Len(t) :
                  t[i] \notin Space /\ \A k \in 1..(i - 1) : t[k] \in Space
           b == CHOOSE i \in 1..Len(t) :
                  t[i] \notin Space /\ \A k \in (i + 1)..Len(t) : t[k] \in Space
       IN  SubSeq(t, a, b)

\* the smallest and the largest element of a non-empty set of integers
Min(S) == CHOOSE x \in S : \A y \in S : x <= y

Max(S) == CHOOSE x \in S : \A y \in S : x >= y

\* ------------------------------------------------------------------------
\* find_catechism_quote: locating the paragraph
\*   paragraph_start_pattern =
\*     (?:\n|^)\s*<quote_id>[\s\n]+(.+?)(?=\n\s*\d+|\Z)      with re.DOTALL
\* ------------------------------------------------------------------------
\* the pattern without its (?:\n|^) anchor: a match may start anywhere
LineStartAfter_Unanchored(t, p) == <<p>>

\* (?:\n|^) tried at position p: the positions just after the alternative,
\* "\n" first, then "^" (without re.MULTILINE "^" is the start of the text)
LineStartAfter(t, p) ==
  (IF At(t, p, {"\n"}) THEN <<p + 1>> ELSE <<>>) \o (IF p = 1 THEN <<p>> ELSE <<>>)

\* (?=\n\s*\d+|\Z) at position e
ParagraphEndAt(t, e) ==
  \/ At(t, e, {"\n"}) /\ At(t, RunEnd(t, e + 1, Space), Digit)
  \/ e = Len(t) + 1

\* \s*<quote_id>[\s\n]+(.+?)(?=...) from position a: the span <<b, e>> of
\* group(1) (characters b..e-1), or <<>> when there is no match.
\*   \s* is greedy and quote_id follows it: every shorter choice is tried;
\*   [\s\n]+ is greedy and gives characters back while (.+?) has nothing left;
\*   (.+?) is lazy: at least one character, then the first position at which
\*   the lookahead holds.
BodyFrom(t, quote_id, a) ==
  LET ks == {k \in 0..(RunEnd(t, a, Space) - a) : LitAt(t, a + k, quote_id)}
  IN  IF ks = {} THEN <<>>
      ELSE LET q  == a + Max(ks) + Len(quote_id)
               ws == {w \in 1..(RunEnd(t, q, Space) - q) : q + w <= Len(t)}
           IN  IF ws = {} THEN <<>>
               ELSE LET b == q + Max(ws)
                        e == Min({x \in (b + 1)..(Len(t) + 1) : ParagraphEndAt(t, x)})
                    IN  <<b, e>>

\* the pattern tried at start position p: the first alternative that matches
ParagraphMatchAt(t, quote_id, p) ==
  LET as  == LineStartAfter(t, p)
      ok  == {i \in 1..Len(as) : BodyFrom(t, quote_id, as[i]) # <<>>}
  IN  IF ok = {} THEN <<>> ELSE BodyFrom(t, quote_id, as[Min(ok)])

\* re.search(paragraph_start_pattern, text_content, re.DOTALL): the match at
\* the leftmost start position, <<>> when there is none
paragraph_match(text_content, quote_id) ==
  LET ps == {p \in 1..(Len(text_content) + 1) :
               ParagraphMatchAt(text_content, quote_id, p) # <<>>}
  IN  IF ps = {} THEN <<>> ELSE ParagraphMatchAt(text_content, quote_id, Min(ps))

\* found_text = paragraph_match.group(1).strip(), m the span of group(1)
found_text(text_content, m) == Strip(Slice(text_content, m[1], m[2]))

\* ------------------------------------------------------------------------
\* clean_catechism_text
\* ------------------------------------------------------------------------
\* re.sub(r'\s+', ' ', text): every maximal run of whitespace becomes " "
RECURSIVE CollapseSpaces(_)
CollapseSpaces(t) ==
  IF t = <<>> THEN <<>>
  ELSE IF t[1] \in Space
       THEN <<" ">> \o CollapseSpaces(Slice(t, RunEnd(t, 1, Space), Len(t) + 1))
       ELSE <<t[1]>> \o CollapseSpaces(Tail(t))

\* str(i) for i >= 0
RECURSIVE DecStr(_)
DecStr(i) ==
  LET d == <<"0", "1", "2", "3", "4", "5", "6", "7", "8", "9">>
  IN  IF i < 10 THEN <<d[i + 1]>> ELSE DecStr(i \div 10) \o <<d[(i % 10) + 1]>>

\* "__BIBLE_REF_" and "__YEAR_REF_"
BiblePrefix == <<"_", "_", "B", "I", "B", "L", "E", "_", "R", "E", "F", "_">>

YearPrefix == <<"_", "_", "Y", "E", "A", "R", "_", "R", "E", "F", "_">>

\* f"__BIBLE_REF_{i}__"
BiblePlaceholder(i) == BiblePrefix \o DecStr(i) \o <<"_", "_">>

\* f"__YEAR_REF_{i}__"
YearPlaceholder(i) == YearPrefix \o DecStr(i) \o <<"_", "_">>

\* (?:-\d+)? at position i: where it ends when it matches something, else 0
RangeEnd(t, i) ==
  IF At(t, i, {"-"}) /\ At(t, i + 1, Digit) THEN RunEnd(t, i + 1, Digit) ELSE 0

\* ,\s*\d+ at position i: where it ends, 0 when it does not match
ItemEnd(t, i) ==
  IF At(t, i, {","}) /\ At(t, RunEnd(t, i + 1, Space), Digit)
  THEN RunEnd(t, RunEnd(t, i + 1, Space), Digit)
  ELSE 0

\* (?:,\s*\d+(?:-\d+)?)* from position i: the positions at which it can end,
\* in the order the backtracking matcher tries them (greedy: longest first)
RECURSIVE ListEnds(_, _)
ListEnds(t, i) ==
  LET j == ItemEnd(t, i)
  IN  (IF j = 0 THEN <<>>
       ELSE (IF RangeEnd(t, j) = 0 THEN <<>> ELSE ListEnds(t, RangeEnd(t, j)))
            \o ListEnds(t, j))
      \o <<i>>

\* bible_pattern at position p: the end of the match, 0 when there is none
\*   \b(?:[1-3]?\s*[A-Za-z]+\s+\d+:\d+(?:-\d+)?(?:,\s*\d+(?:-\d+)?)*)\b
bible_pattern(t, p) ==
  LET a == IF At(t, p, {"1", "2", "3"}) THEN p + 1 ELSE p   \* [1-3]?
      b == RunEnd(t, a, Space)                              \* \s*
      c == RunEnd(t, b, Letter)                             \* [A-Za-z]+
      d == RunEnd(t, c, Space)                              \* \s+
      e == RunEnd(t, d, Digit)                              \* \d+
      f == RunEnd(t, e + 1, Digit)                          \* :\d+
      ends == (IF RangeEnd(t, f) = 0 THEN <<>> ELSE ListEnds(t, RangeEnd(t, f)))
              \o ListEnds(t, f)
      ok == {i \in 1..Len(ends) : WordBoundary(t, ends[i])}
  IN  IF /\ WordBoundary(t, p)
         /\ c > b /\ d > c /\ e > d /\ At(t, e, {":"}) /\ f > e + 1
         /\ ok # {}
      THEN ends[Min(ok)]
      ELSE 0

\* year_pattern at position p: the end of the match, 0 when there is none
\*   \b(?:1[0-9]{3}|20[0-9]{2})\b
year_pattern(t, p) ==
  IF /\ WordBoundary(t, p)
     /\ \/ At(t, p, {"1"}) /\ At(t, p + 1, Digit)
        \/ At(t, p, {"2"}) /\ At(t, p + 1, {"0"})
     /\ At(t, p + 2, Digit) /\ At(t, p + 3, Digit)
     /\ WordBoundary(t, p + 4)
  THEN p + 4
  ELSE 0

\* text = re.sub(bible_pattern, replace_bible_ref, text), scanning from
\* position p with n references already taken: the rewritten text from p on
\* and the references appended to bible_refs
RECURSIVE replace_bible_ref(_, _, _)
replace_bible_ref(t, p, n) ==
  IF p > Len(t) THEN [text |-> <<>>, refs |-> <<>>]
  ELSE LET e == bible_pattern(t, p)
       IN  IF e = 0
           THEN LET r == replace_bible_ref(t, p + 1, n)
                IN  [text |-> <<t[p]>> \o r.text, refs |-> r.refs]
           ELSE LET r == replace_bible_ref(t, e, n + 1)
                IN  [text |-> BiblePlaceholder(n) \o r.text,
                     refs |-> <<Slice(t, p, e)>> \o r.refs]

\* text = re.sub(year_pattern, replace_year_ref, text)
RECURSIVE replace_year_ref(_, _, _)
replace_year_ref(t, p, n) ==
  IF p > Len(t) THEN [text |-> <<>>, refs |-> <<>>]
  ELSE LET e == year_pattern(t, p)
       IN  IF e = 0
           THEN LET r == replace_year_ref(t, p + 1, n)
                IN  [text |-> <<t[p]>> \o r.text, refs |-> r.refs]
           ELSE LET r == replace_year_ref(t, e, n + 1)
                IN  [text |-> YearPlaceholder(n) \o r.text,
                     refs |-> <<Slice(t, p, e)>> \o r.refs]

\* (?!\s*[:.]\d) at position e
NotBeforeColonDigit(t, e) ==
  ~(/\ At(t, RunEnd(t, e, Space), {":", "."})
    /\ At(t, RunEnd(t, e, Space) + 1, Digit))

\* \b\d+\b(?!\s*[:.]\d) at position p: the end of the match, 0 when none
standalone_number(t, p) ==
  IF /\ WordBoundary(t, p)
     /\ At(t, p, Digit)
     /\ WordBoundary(t, RunEnd(t, p, Digit))
     /\ NotBeforeColonDigit(t, RunEnd(t, p, Digit))
  THEN RunEnd(t, p, Digit)
  ELSE 0

\* text = re.sub(r'\b\d+\b(?!\s*[:.]\d)', '', text), from position p
RECURSIVE StripNumbers(_, _)
StripNumbers(t, p) ==
  IF p > Len(t) THEN <<>>
  ELSE LET e == standalone_number(t, p)
       IN  IF e = 0 THEN <<t[p]>> \o StripNumbers(t, p + 1) ELSE StripNumbers(t, e)

\* text = re.sub(r'\s+\)', ')', text), from position p
RECURSIVE FixClosing(_, _)
FixClosing(t, p) ==
  IF p > Len(t) THEN <<>>
  ELSE IF At(t, p, Space) /\ At(t, RunEnd(t, p, Space), {")"})
       THEN <<")">> \o FixClosing(t, RunEnd(t, p, Space) + 1)
       ELSE <<t[p]>> \o FixClosing(t, p + 1)

\* text = re.sub(r'\(\s+', '(', text), from position p
RECURSIVE FixOpening(_, _)
FixOpening(t, p) ==
  IF p > Len(t) THEN <<>>
  ELSE IF At(t, p, {"("}) /\ At(t, p + 1, Space)
       THEN <<"(">> \o FixOpening(t, RunEnd(t, p + 1, Space))
       ELSE <<t[p]>> \o FixOpening(t, p + 1)

\* text.replace(old, new), from position p (old is never empty)
RECURSIVE Replace(_, _, _, _)
Replace(t, p, old, new) ==
  IF p > Len(t) THEN <<>>
  ELSE IF LitAt(t, p, old)
       THEN new \o Replace(t, p + Len(old), old, new)
       ELSE <<t[p]>> \o Replace(t, p + 1, old, new)

\* the restore loop left out: the placeholders stay in the text
RestoreBible_Skipped(t, refs, i) == t

\* for i, bible_ref in enumerate(bible_refs):
\*     text = text.replace(f"__BIBLE_REF_{i}__", bible_ref)      from index i
RECURSIVE RestoreBible(_, _, _)
RestoreBible(t, refs, i) ==
  IF i >= Len(refs) THEN t
  ELSE RestoreBible(Replace(t, 1, BiblePlaceholder(i), refs[i + 1]), refs, i + 1)

\* for i, year_ref in enumerate(year_refs):
\*     text = text.replace(f"__YEAR_REF_{i}__", year_ref)        from index i
RECURSIVE RestoreYear(_, _, _)
RestoreYear(t, refs, i) ==
  IF i >= Len(refs) THEN t
  ELSE RestoreYear(Replace(t, 1, YearPlaceholder(i), refs[i + 1]), refs, i + 1)

\* the second whitespace collapse left out
CleanedTemplate_NoSecondCollapse(protected) ==
  FixOpening(FixClosing(StripNumbers(protected, 1), 1), 1)

\* the text after the second collapse and the parenthesis fixes, placeholders
\* still in place
CleanedTemplate(protected) ==
  FixOpening(FixClosing(CollapseSpaces(StripNumbers(protected, 1)), 1), 1)

\* the stages of clean_catechism_text on text, kept for inspection
CleanStages(text) ==
  LET collapsed == CollapseSpaces(text)
      bible     == replace_bible_ref(collapsed, 1, 0)
      year      == replace_year_ref(bible.text, 1, 0)
      template  == CleanedTemplate(year.text)
      restored  == RestoreYear(RestoreBible(template, bible.refs, 0), year.refs, 0)
  IN  [collapsed  |-> collapsed,
       bible_refs |-> bible.refs,
       year_refs  |-> year.refs,
       protected  |-> year.text,
       template   |-> template,
       result     |-> Strip(restored)]

clean_catechism_text(text) == CleanStages(text).result

\* if paragraph_match: return clean_catechism_text(found_text)
\* return None                                 m the match, <<>> for no match
QuoteOfMatch(text_content, m) ==
  IF m # <<>> THEN Str(clean_catechism_text(found_text(text_content, m))) ELSE None

\* find_catechism_quote(text_content, quote_id) -> str | None
find_catechism_quote(text_content, quote_id) ==
  QuoteOfMatch(text_content, paragraph_match(text_content, quote_id))

\* ------------------------------------------------------------------------
\* on_message: request detection and the reply
\* ------------------------------------------------------------------------
\* the tail with \s+ in place of \s*: whitespace required before the digits
RequestTail_SpaceRequired(t, a) ==
  LET starts == (IF At(t, a, {"."}) THEN <<a + 1>> ELSE <<>>) \o <<a>>
      Digits(x) == {k \in 1..(RunEnd(t, x, Space) - x) : At(t, x + k, Digit)}
      ok == {i \in 1..Len(starts) : Digits(starts[i]) # {}}
  IN  IF ok = {} THEN <<>>
      ELSE LET b == starts[Min(ok)] + Max(Digits(starts[Min(ok)]))
           IN  <<b, RunEnd(t, b, Digit)>>

\* \.?\s*(\d+) from position a, just after the marker letters: the span
\* <<b, e>> of group(1), <<>> when there is no match.  "\.?" is greedy (with
\* the period first), "\s*" is greedy and gives characters back, "\d+" is
\* greedy.
RequestTail(t, a) ==
  LET starts == (IF At(t, a, {"."}) THEN <<a + 1>> ELSE <<>>) \o <<a>>
      Digits(x) == {k \in 0..(RunEnd(t, x, Space) - x) : At(t, x + k, Digit)}
      ok == {i \in 1..Len(starts) : Digits(starts[i]) # {}}
  IN  IF ok = {} THEN <<>>
      ELSE LET b == starts[Min(ok)] + Max(Digits(starts[Min(ok)]))
           IN  <<b, RunEnd(t, b, Digit)>>

\* [Cc][Cc][Cc]\.?\s*(\d+) at position p
RequestAt(t, p) ==
  IF At(t, p, {"C", "c"}) /\ At(t, p + 1, {"C", "c"}) /\ At(t, p + 2, {"C", "c"})
  THEN RequestTail(t, p + 3)
  ELSE <<>>

\* match = re.search(r"[Cc][Cc][Cc]\.?\s*(\d+)", message.content): the span of
\* group(1) of the leftmost match, <<>> when there is none
request_match(content) ==
  LET ps == {p \in 1..Len(content) : RequestAt(content, p) # <<>>}
  IN  IF ps = {} THEN <<>> ELSE RequestAt(content, Min(ps))

\* the display limit of the embed description
MaxQuoteLen == 4000

\* "...\n(Quote too long, truncated.)"
TruncationSuffix ==
  <<".", ".", ".", "\n", "(", "Q", "u", "o", "t", "e", " ", "t", "o", "o", " ",
    "l", "o", "n", "g", ",", " ", "t", "r", "u", "n", "c", "a", "t", "e", "d",
    ".", ")">>

\* the comparison written >= instead of >
Truncate_AtLimit(found_quote) ==
  IF Len(found_quote) >= MaxQuoteLen
  THEN SubSeq(found_quote, 1, MaxQuoteLen) \o TruncationSuffix
  ELSE found_quote

\* if len(found_quote) > 4000: found_quote = found_quote[:4000] + "...\n(...)"
Truncate(found_quote) ==
  IF Len(found_quote) > MaxQuoteLen
  THEN SubSeq(found_quote, 1, MaxQuoteLen) \o TruncationSuffix
  ELSE found_quote

\* the messages the handler sends
NotLoadedReply == [kind |-> "not_loaded", quote_id |-> <<>>, body |-> <<>>]

EmbedReply(quote_id, description) ==
  [kind |-> "embed", quote_id |-> quote_id, body |-> description]

NotFoundReply(quote_id) == [kind |-> "not_found", quote_id |-> quote_id, body |-> <<>>]

\* if found_quote: ... send(embed) else: send("Could not find ...")
ReplyFor(quote_id, found_quote) ==
  IF Truthy(found_quote)
  THEN EmbedReply(quote_id, Truncate(found_quote.s))
  ELSE NotFoundReply(quote_id)

\* the test written without its "not"
DocumentMissing_Inverted(cached) == Truthy(cached)

\* if not CACHED_CATECHISM_CONTENT
DocumentMissing(cached) == ~Truthy(cached)

\* ------------------------------------------------------------------------
\* Loader
\* ------------------------------------------------------------------------
\* the file at LOCAL_FILE_PATH as the process finds it
NoFile == [exists |-> FALSE, readable |-> FALSE, content |-> <<>>]

UnreadableFile == [exists |-> TRUE, readable |-> FALSE, content |-> <<>>]

TextFile(d) == [exists |-> TRUE, readable |-> TRUE, content |-> d]

\* get_catechism_text_offline(): None when the file is missing or the read
\* raises, else the whole content returned by f.read()
get_catechism_text_offline(f) ==
  IF ~f.exists THEN None
  ELSE IF ~f.readable THEN None
  ELSE Str(f.content)

\* ------------------------------------------------------------------------
\* State
\* ------------------------------------------------------------------------
VARIABLES
  file,                      \* the file at LOCAL_FILE_PATH
  CACHED_CATECHISM_CONTENT,  \* the module global: None or the loaded text
  readies,                   \* how many times on_ready has been dispatched
  syncing,                   \* on_ready coroutines suspended in bot.tree.sync()
  file_changes,              \* how many times the file was replaced on disk
  inbox,                     \* messages dispatched to the bot, not yet handled
  last,                      \* what on_message did with the latest message
  input,                     \* argument of a function applied on its own
  output                     \* its result

vars ==
  <<file, CACHED_CATECHISM_CONTENT, readies, syncing, file_changes, inbox, last,
    input, output>>

bot_vars == <<file, CACHED_CATECHISM_CONTENT, readies, syncing, file_changes, inbox, last>>

\* ------------------------------------------------------------------------
\* Bounds and input sets
\* ------------------------------------------------------------------------
MaxReady == 2

MaxFileChanges == 1

MaxInbox == 2

MaxDocLen == 6

MaxCleanAtoms == 4

MaxMessageAtoms == 4

LengthSlack == 30

\* the concatenation of a sequence of texts
RECURSIVE Concat(_)
Concat(ss) == IF ss = <<>> THEN <<>> ELSE Head(ss) \o Concat(Tail(ss))

\* all texts made of at most n of the given pieces
TextsOf(atoms, n) == {Concat(ss) : ss \in UNION {[1..k -> atoms] : k \in 0..n}}

\* documents of the bot runs: empty, two paragraphs, a paragraph of footnote
\* numbers only, a paragraph with no body
BotDocs ==
  { <<>>,
    <<"2", "7", " ", "a", " ", "1", "2", "\n", "2", "8", " ", "b">>,
    <<"2", "7", " ", "1", "2", "\n", "2", "8", " ", "b">>,
    <<"2", "7", "\n", "2", "8", " ", "b">> }

BotFiles == {NoFile, UnreadableFile} \cup {TextFile(d) : d \in BotDocs}

Message(author, content) == [author |-> author, content |-> content]

\* a message of the bot itself is one of its replies: an embed has no content
BotMessages ==
  { Message("user", <<"C", "C", "C", " ", "2", "7">>),
    Message("user", <<"s", "e", "e", " ", "c", "c", "c", ".", "5">>),
    Message("user", <<"h", "i">>),
    Message("bot", <<>>) }

\* documents and identifiers of the locate runs
DocAlphabet == {"5", "0", " ", "\n", "a"}

FindDocs == UNION {[1..k -> DocAlphabet] : k \in 0..MaxDocLen}

FindIds == {<<"5">>, <<"0", "5">>}

\* raw spans of the clean runs: a reference, a year, a footnote number after
\* a space, a lone digit, whitespace and punctuation
CleanAtoms ==
  { <<"R", "o", "m", " ", "5", ":", "2", "9">>,
    <<"1", "9", "9", "4">>,
    <<" ", "1", "2">>,
    <<"3">>,
    <<" ">>, <<"\n">>, <<"(">>, <<")">>, <<":">>, <<".">>, <<",">>, <<"a">> }

CleanTexts == TextsOf(CleanAtoms, MaxCleanAtoms)

\* raw spans of prose with references: no loose colon or period
ReferenceAtoms ==
  { <<"R", "o", "m", " ", "5", ":", "2", "9">>,
    <<"1", "9", "9", "4">>,
    <<"1", "2">>,
    <<"3">>,
    <<" ">>, <<"(">>, <<")">>, <<",">>, <<"a">> }

ReferenceTexts == TextsOf(ReferenceAtoms, MaxCleanAtoms)

\* message contents of the request runs
MessageAtoms ==
  {<<"C", "c">>, <<"C">>, <<"c">>, <<".">>, <<" ">>, <<"2", "7">>, <<"5">>, <<"x">>}

RequestContents == TextsOf(MessageAtoms, MaxMessageAtoms)

\* cleaned quotes of the reply runs: lengths around the display limit
QuoteOfLen(n, step) ==
  [i \in 1..n |-> <<"a", "b", "c", "d", "e">>[((i * step) % 5) + 1]]

ReplyQuotes ==
  {QuoteOfLen(n, step) : n \in (MaxQuoteLen - LengthSlack)..(MaxQuoteLen + LengthSlack),
                         step \in {1, 2}}
    \cup {QuoteOfLen(n, 1) : n \in 0..3}

\* ------------------------------------------------------------------------
\* Initial states
\* ------------------------------------------------------------------------
NoInput == [fn |-> "none"]

Pending == [done |-> FALSE]

NoMessage ==
  [handled |-> FALSE, author |-> "none", content |-> <<>>, request |-> FALSE,
   quote_id |-> <<>>, doc_seen |-> None, find_invoked |-> FALSE,
   located |-> FALSE, found_quote |-> None, replies |-> <<>>]

\* the process has started: nothing loaded, no event handled yet
Init ==
  /\ file \in BotFiles
  /\ CACHED_CATECHISM_CONTENT = None
  /\ readies = 0
  /\ syncing = 0
  /\ file_changes = 0
  /\ inbox \in UNION {[1..k -> BotMessages] : k \in 0..MaxInbox}
  /\ last = NoMessage
  /\ input = NoInput
  /\ output = Pending

\* ------------------------------------------------------------------------
\* Actions
\* ------------------------------------------------------------------------
\* on_ready up to its first await: the file check and the load, one
\* synchronous step of the event loop
on_ready ==
  /\ readies < MaxReady
  /\ readies' = readies + 1
  /\ IF ~file.exists
     THEN UNCHANGED <<CACHED_CATECHISM_CONTENT, syncing>>
     ELSE /\ CACHED_CATECHISM_CONTENT' = get_catechism_text_offline(file)
          /\ syncing' = syncing + 1
  /\ UNCHANGED <<file, file_changes, inbox, last, input, output>>

\* the rest of on_ready: the awaited command syncs complete
on_ready_synced ==
  /\ syncing > 0
  /\ syncing' = syncing - 1
  /\ UNCHANGED <<file, CACHED_CATECHISM_CONTENT, readies, file_changes, inbox, last,
                 input, output>>

\* the environment replaces, removes or locks the file
FileChange ==
  /\ file_changes < MaxFileChanges
  /\ file_changes' = file_changes + 1
  /\ file' \in BotFiles \ {file}
  /\ UNCHANGED <<CACHED_CATECHISM_CONTENT, readies, syncing, inbox, last, input, output>>

\* the record of a handled message before anything is decided
Received(m, cached) ==
  [NoMessage EXCEPT !.handled = TRUE, !.author = m.author, !.content = m.content,
                    !.doc_seen = cached]

\* lines 199-219: the reply for what find_catechism_quote returned
Answer(seen, quote_id, found_quote) ==
  [seen EXCEPT !.found_quote = found_quote,
               !.replies = <<ReplyFor(quote_id, found_quote)>>]

\* line 197: found_quote = find_catechism_quote(CACHED_CATECHISM_CONTENT,
\* quote_id), m the match it makes inside
Extract(seen, cached, quote_id, m) ==
  Answer([seen EXCEPT !.find_invoked = TRUE, !.located = (m # <<>>)],
         quote_id, QuoteOfMatch(cached.s, m))

\* lines 190-197: a request for quote_id was detected
Request(seen, cached, quote_id) ==
  IF DocumentMissing(cached)
  THEN [seen EXCEPT !.replies = <<NotLoadedReply>>]
  ELSE Extract(seen, cached, quote_id, paragraph_match(cached.s, quote_id))

\* lines 182-190: the author test and the request pattern, match the span of
\* group(1) or <<>>
Detect(m, cached, match) ==
  IF m.author = "bot" THEN Received(m, cached)
  ELSE IF match = <<>> THEN Received(m, cached)
  ELSE Request([Received(m, cached) EXCEPT
                  !.request = TRUE,
                  !.quote_id = Slice(m.content, match[1], match[2])],
               cached, Slice(m.content, match[1], match[2]))

\* what on_message does with message m when the global holds cached
Handle(m, cached) == Detect(m, cached, request_match(m.content))

\* on_message for the next dispatched message
on_message ==
  /\ inbox # <<>>
  /\ last' = Handle(Head(inbox), CACHED_CATECHISM_CONTENT)
  /\ inbox' = Tail(inbox)
  /\ UNCHANGED <<file, CACHED_CATECHISM_CONTENT, readies, syncing, file_changes,
                 input, output>>

Next == on_ready \/ on_ready_synced \/ FileChange \/ on_message

Spec == Init /\ [][Next]_vars

\* ------------------------------------------------------------------------
\* Request detection alone: the document is loaded, one message arrives
\* ------------------------------------------------------------------------
InitRequest ==
  /\ file = TextFile(<<"2", "7", " ", "a", "\n", "5", " ", "b">>)
  /\ CACHED_CATECHISM_CONTENT = get_catechism_text_offline(file)
  /\ readies = 1
  /\ syncing = 0
  /\ file_changes = 0
  /\ \E c \in RequestContents : inbox = <<Message("user", c)>>
  /\ last = NoMessage
  /\ input = NoInput
  /\ output = Pending

NextRequest == on_message

SpecRequest == InitRequest /\ [][NextRequest]_vars

\* ------------------------------------------------------------------------
\* The pure functions applied to inputs of their own
\* ------------------------------------------------------------------------
InitPure(inputs) ==
  /\ file = NoFile
  /\ CACHED_CATECHISM_CONTENT = None
  /\ readies = 0
  /\ syncing = 0
  /\ file_changes = 0
  /\ inbox = <<>>
  /\ last = NoMessage
  /\ input \in inputs
  /\ output = Pending

\* the match find_catechism_quote made and what it returned
FindOutcome(text_content, m) ==
  [done |-> TRUE, span |-> m, result |-> QuoteOfMatch(text_content, m)]

\* find_catechism_quote(text_content, quote_id), with the match it made
FindQuote ==
  /\ input.fn = "find"
  /\ ~output.done
  /\ output' = FindOutcome(input.text_content,
                            paragraph_match(input.text_content, input.quote_id))
  /\ UNCHANGED <<bot_vars, input>>

InitFind ==
  InitPure({[fn |-> "find", text_content |-> d, quote_id |-> i] : d \in FindDocs, i \in FindIds})

SpecFind == InitFind /\ [][FindQuote]_vars

\* clean_catechism_text(text), with its intermediate values
CleanText ==
  /\ input.fn = "clean"
  /\ ~output.done
  /\ output' = [done |-> TRUE, stages |-> CleanStages(input.text)]
  /\ UNCHANGED <<bot_vars, input>>

InitClean == InitPure({[fn |-> "clean", text |-> t] : t \in CleanTexts})

SpecClean == InitClean /\ [][CleanText]_vars

InitCleanReferences == InitPure({[fn |-> "clean", text |-> t] : t \in ReferenceTexts})

SpecCleanReferences == InitCleanReferences /\ [][CleanText]_vars

\* the reply of on_message for a quote find_catechism_quote returned
SendReply ==
  /\ input.fn = "reply"
  /\ ~output.done
  /\ output' = [done |-> TRUE, reply |-> ReplyFor(input.quote_id, input.found_quote)]
  /\ UNCHANGED <<bot_vars, input>>

InitReply ==
  InitPure({[fn |-> "reply", quote_id |-> <<"2", "7">>, found_quote |-> Str(q)] :
              q \in ReplyQuotes})

SpecReply == InitReply /\ [][SendReply]_vars

\* ------------------------------------------------------------------------
\* Properties
\* ------------------------------------------------------------------------
\* sub occurs in t
Contains(t, sub) == \E p \in 1..(Len(t) - Len(sub) + 1) : LitAt(t, p, sub)

\* position j holds the first digit of a line that begins with a number
\* (after optional whitespace), a line other than the first
LineLeadingDigit(t, j) ==
  /\ At(t, j, Digit)
  /\ \E r \in 1..(j - 1) : t[r] = "\n" /\ \A k \in (r + 1)..(j - 1) : t[k] \in Space

\* the positions at which id stands as the leading number of a paragraph:
\* only whitespace between it and the start of the text or a newline, and
\* whitespace after it
LeaderPositions(t, id) ==
  {q \in 1..Len(t) :
     /\ LitAt(t, q, id)
     /\ At(t, q + Len(id), Space)
     /\ \/ \A k \in 1..(q - 1) : t[k] \in Space
        \/ \E r \in 1..(q - 1) : t[r] = "\n" /\ \A k \in (r + 1)..(q - 1) : t[k] \in Space}

\* C1: a request handled while the document is absent (before on_ready, or
\* after a load that failed) is answered with the not-loaded reply and
\* find_catechism_quote is not invoked; whatever on_message sees in the
\* global is None or the complete content of a file, never a part of one.
C1_AbsentDocumentGetsNotLoaded ==
  /\ (last.request /\ last.doc_seen.isNone) =>
       (last.replies = <<NotLoadedReply>> /\ ~last.find_invoked)
  /\ ~last.doc_seen.isNone => last.doc_seen.s \in BotDocs
  /\ ~CACHED_CATECHISM_CONTENT.isNone => CACHED_CATECHISM_CONTENT.s \in BotDocs

\* C1 witness: a request arrives while on_ready is still awaiting its syncs
\* after a load that failed, and gets the not-loaded reply
C1_Witness ==
  /\ last.request
  /\ last.doc_seen.isNone
  /\ last.replies = <<NotLoadedReply>>
  /\ readies > 0
  /\ syncing > 0
  /\ file = UnreadableFile

\* C2: a loaded empty document is not an absent one: once a load has put a
\* text (even the empty text) in the global, a request goes through
\* extraction and the not-loaded reply is not sent.
C2_EmptyDocumentIsNotAbsent ==
  (last.request /\ ~last.doc_seen.isNone) =>
    (last.find_invoked /\ last.replies # <<NotLoadedReply>>)

\* C8: with a document loaded, a request gets exactly one reply: the embed
\* with the identifier and the cleaned text whenever the paragraph was
\* located (an empty cleaned text included), the not-found message only when
\* it was not located.
C8_LocatedParagraphGetsEmbed ==
  (last.request /\ Truthy(last.doc_seen)) =>
    /\ Len(last.replies) = 1
    /\ last.located =>
         last.replies[1] = EmbedReply(last.quote_id, Truncate(last.found_quote.s))
    /\ ~last.located => last.replies[1] = NotFoundReply(last.quote_id)

\* the marker letters at p, an optional period, at least minSpaces whitespace
\* characters, then a digit
RequestPatternAt(t, p, minSpaces) ==
  /\ \A k \in 0..2 : At(t, p + k, {"C", "c"})
  /\ \E a \in {p + 3} \cup (IF At(t, p + 3, {"."}) THEN {p + 4} ELSE {}) :
       \E b \in (a + minSpaces)..Len(t) :
         /\ \A k \in a..(b - 1) : t[k] \in Space
         /\ t[b] \in Digit

\* the digit run of the first occurrence of the pattern
FirstRequestDigits(t, minSpaces) ==
  LET p == Min({x \in 1..Len(t) : RequestPatternAt(t, x, minSpaces)})
      b == Min({x \in (p + 3)..Len(t) : t[x] \in Digit})
      e == Min({x \in b..(Len(t) + 1) : ~At(t, x, Digit)})
  IN  Slice(t, b, e)

\* C9 as claimed: a message is a request only if it has the marker, an
\* optional period, at least one whitespace character and then digits, and
\* the identifier is the digit run of the first such occurrence.
C9_RequestNeedsWhitespace ==
  last.request =>
    /\ \E p \in 1..Len(last.content) : RequestPatternAt(last.content, p, 1)
    /\ last.quote_id = FirstRequestDigits(last.content, 1)

\* C9 amended: a message of another user is a request exactly when it has the
\* marker letters in any case, an optional period, any whitespace (none
\* included) and then digits; the identifier is the digit run of the first
\* such occurrence.
C9_RequestPattern ==
  last.handled =>
    /\ last.request <=> \E p \in 1..Len(last.content) : RequestPatternAt(last.content, p, 0)
    /\ last.request => last.quote_id = FirstRequestDigits(last.content, 0)

\* C9 witness: "Cc" "c" "27" with nothing between marker and digits is
\* handled as a request for 27
C9_Witness ==
  /\ last.request
  /\ last.content = <<"C", "c", "c", "2", "7">>
  /\ last.quote_id = <<"2", "7">>

C3_SpanIsTheRequestedParagraph ==
  (output.done /\ output.span # <<>>) =>
    LET t   == input.text_content
        id  == input.quote_id
        b   == output.span[1]
        e   == output.span[2]
    IN  /\ LeaderPositions(t, id) # {}
        /\ LET sep == RunEnd(t, Min(LeaderPositions(t, id)) + Len(id), Space)
           IN  Strip(Slice(t, b, e)) = Strip(Slice(t, sep, e))
        /\ \/ e = Len(t) + 1
           \/ At(t, e, {"\n"}) /\ LineLeadingDigit(t, RunEnd(t, e + 1, Space))
        /\ \A j \in b..(e - 1) : ~LineLeadingDigit(t, j)

\* C4: when the identifier is not the exact leading number of any line,
\* find_catechism_quote returns None.
C4_NotALeaderIsNotFound ==
  (output.done /\ LeaderPositions(input.text_content, input.quote_id) = {}) =>
    output.result = None

\* C4 witness: "5" asked of a document whose paragraph is led by "05"
C4_Witness ==
  /\ output.done
  /\ input.quote_id = <<"5">>
  /\ LitAt(input.text_content, 1, <<"0", "5", " ", "a">>)
  /\ output.result = None

\* the standalone integer tokens of t: maximal digit runs between word
\* boundaries, as <<first position, position after the last>>
StandaloneTokens(t) ==
  {<<p, RunEnd(t, p, Digit)>> : p \in {x \in 1..Len(t) :
      At(t, x, Digit) /\ WordBoundary(t, x) /\ WordBoundary(t, RunEnd(t, x, Digit))}}

\* a token of the collapsed input that the claim lets stay: part of a
\* scripture reference, a year, or immediately followed by a colon and a digit
ExemptToken(c, tok) ==
  \/ \E s \in 1..tok[1] : bible_pattern(c, s) >= tok[2]
  \/ year_pattern(c, tok[1]) = tok[2]
  \/ At(c, tok[2], {":"}) /\ At(c, tok[2] + 1, Digit)

\* C5: every standalone integer token left in the output is one the input
\* has as part of a protected token or immediately before a colon and a
\* digit; every other standalone integer token is removed.
C5_BareNumbersRemoved ==
  output.done =>
    LET c == output.stages.collapsed
        r == output.stages.result
    IN  \A tok \in StandaloneTokens(r) :
          \E src \in StandaloneTokens(c) :
            /\ Slice(c, src[1], src[2]) = Slice(r, tok[1], tok[2])
            /\ ExemptToken(c, src)

\* a token as the claim writes them: no leading whitespace, single spaces
PlainToken(tok) ==
  /\ tok # <<>>
  /\ tok[1] \notin Space
  /\ \A i \in 1..Len(tok) : tok[i] \in Space => (tok[i] = " " /\ ~At(tok, i + 1, Space))

\* C6: every scripture reference and every year of the input is in the
\* output character for character: each token taken in the protect step is
\* restored, each token of the raw input that matches a protected pattern is
\* there, and no placeholder text is left.
C6_ProtectedTokensPreserved ==
  output.done =>
    LET t  == input.text
        st == output.stages
    IN  /\ \A i \in 1..Len(st.bible_refs) : Contains(st.result, st.bible_refs[i])
        /\ \A i \in 1..Len(st.year_refs) : Contains(st.result, st.year_refs[i])
        /\ \A p \in 1..Len(t) :
             /\ (bible_pattern(t, p) # 0 /\ PlainToken(Slice(t, p, bible_pattern(t, p))))
                  => Contains(st.result, Slice(t, p, bible_pattern(t, p)))
             /\ year_pattern(t, p) # 0 => Contains(st.result, Slice(t, p, year_pattern(t, p)))
        /\ ~Contains(st.result, BiblePrefix)
        /\ ~Contains(st.result, YearPrefix)

\* C6 witness: a year and a reference were both replaced by placeholders, the
\* text around them was changed by the later steps, and both are back
C6_Witness ==
  /\ output.done
  /\ output.stages.bible_refs = << <<"R", "o", "m", " ", "5", ":", "2", "9">> >>
  /\ output.stages.year_refs = << <<"1", "9", "9", "4">> >>
  /\ Contains(output.stages.protected, BiblePlaceholder(0))
  /\ Contains(output.stages.protected, YearPlaceholder(0))
  /\ Len(output.stages.template) < Len(output.stages.protected)
  /\ Contains(output.stages.result, <<"1", "9", "9", "4">>)
  /\ Contains(output.stages.result, <<"R", "o", "m", " ", "5", ":", "2", "9">>)

\* C7: the output is one line without a run of two whitespace characters,
\* without leading or trailing whitespace, without whitespace after "(" or
\* before ")".
C7_NormalisedSpacing ==
  output.done =>
    LET r == output.stages.result
    IN  \A i \in 1..Len(r) :
          r[i] \in Space =>
            /\ r[i] = " "
            /\ i # 1 /\ i # Len(r)
            /\ r[i + 1] \notin Space
            /\ r[i - 1] # "("
            /\ r[i + 1] # ")"

\* C7 witness: a footnote number between two words was stripped and the two
\* spaces it left were collapsed into one
C7_Witness ==
  /\ output.done
  /\ input.text = <<"a", " ", "1", "2", "\n", "a">>
  /\ output.stages.result = <<"a", " ", "a">>

====
